---------------------------- MODULE Spec2Model ----------------------------
(***************************************************************************)
(* HAL Contract v2, Python reference implementation                        *)
(* (src/python/hal_contract/backend.py).                                   *)
(*                                                                         *)
(* Four state machines share this module:                                  *)
(*   Spec       one execution of Backend.wait that its caller lets run,    *)
(*              against a backend whose status()/result() answer or raise  *)
(*              arbitrarily                                                *)
(*   SpecJob    a caller (submit, wait, abandon a wait, wait again,        *)
(*              cancel) against a backend that reports one job following   *)
(*              the JobStatus lifecycle                                    *)
(*   SpecCounts Counts.insert / Counts.probabilities                       *)
(*   SpecGrid   Topology.grid / Topology.is_connected                      *)
(***************************************************************************)
EXTENDS Integers, Sequences, FiniteSets, TLC

VARIABLES
    \* ---- Backend.wait: the coroutine's own state
    pc,               \* "idle" | "status" | "result" | "sleep" | "done"
    iter,             \* the value of the loop's range(600) counter
    outcome,          \* "none" | "value" | the kind of the error raised
    retval,           \* what wait returned
    \* ---- Backend.wait: what an observer of the calls records
    npolls,           \* status() calls made by this wait
    nresults,         \* result() calls made by this wait
    nsleeps,          \* asyncio.sleep(0.5) calls completed by this wait
    clock,            \* simulated time in ms since this wait began
    lastPollAt,       \* clock value at the latest status() call
    pendingSeen,      \* polls that observed QUEUED or RUNNING
    firstOther,       \* first answer of status() that was not QUEUED/RUNNING
    pollsAfterOther,  \* status() calls made after firstOther was observed
    sleepsAfterOther, \* sleeps begun after firstOther was observed
    resultResp,       \* what the result() call answered ("none": not called)
    lastCall,         \* the latest call made on the backend (or "sleep")
    lastBy,           \* who made the latest step: "wait" | "caller" | "backend"
    \* ---- the job at the backend, and the caller
    job,              \* "NONE" (never submitted) or a JobStatus
    waitNo,           \* number of wait() calls begun
    failedKind,       \* kind of the first wait that ended JobFailed/JobCancelled
    failedAt,         \* waitNo of that wait
    \* ---- Counts
    counts,           \* Counts._counts: a function bitstring -> int
    hist,             \* the insert calls made so far, in order
    probs,            \* what the latest probabilities() call returned
    \* ---- Topology
    rows, cols,       \* the arguments of Topology.grid
    edges,            \* Topology.edges: a sequence of pairs
    built,            \* Topology.grid has returned
    q1, q2,           \* the arguments of the latest is_connected call
    conn              \* what it returned

waitVars == <<pc, iter, outcome, retval, npolls, nresults, nsleeps, clock,
              lastPollAt, pendingSeen, firstOther, pollsAfterOther,
              sleepsAfterOther, resultResp, lastCall, lastBy>>
jobVars == <<job, waitNo, failedKind, failedAt>>
countVars == <<counts, hist, probs>>
gridVars == <<rows, cols, edges, built, q1, q2, conn>>
vars == <<waitVars, jobVars, countVars, gridVars>>

---------------------------------------------------------------------------
(* Program constants                                                       *)

\* for _ in range(600)
MaxPolls == 600
\* asyncio.sleep(0.5), in milliseconds
IntervalMs == 500

(* Bounds of the model                                                     *)

\* wait() calls one caller makes on the same identifier (SpecJob)
MaxWaits == 2
\* insert calls on one Counts
MaxInserts == 3
\* largest of the small counts inserted (the smallest is -1)
MaxCount == 2
\* The range of a float, scaled down: a quotient whose magnitude exceeds
\* FloatMax stands for one beyond the largest float (about 1.8 * 10^308).
\* It exceeds every quotient of the small counts.
FloatMax == 100
\* A count beyond the range of a float, on the same scale (it stands for
\* an int such as 10**400): HugeCount divided by any sum of small counts
\* exceeds FloatMax.
HugeCount == 10000
\* largest rows / cols of a grid
MaxDim == 3

---------------------------------------------------------------------------
(* JobStatus                                                               *)

JobStatus == {"QUEUED", "RUNNING", "COMPLETED", "FAILED", "CANCELLED"}

is_terminal(s) == s \in {"COMPLETED", "FAILED", "CANCELLED"}

is_pending(s) == s \in {"QUEUED", "RUNNING"}

\* A backend that revives a failed job (FAILED -> QUEUED on retry).
LifecycleRetry(s) ==
    CASE s = "QUEUED" -> {"RUNNING"}
      [] s = "RUNNING" -> {"COMPLETED", "FAILED"}
      [] s = "FAILED" -> {"QUEUED"}
      [] OTHER -> {}

\* The transitions the backend itself makes, from the JobStatus state
\* machine: QUEUED -> RUNNING -> COMPLETED, RUNNING -> FAILED.  The edges
\* into CANCELLED belong to cancel (BackendApply).
Lifecycle(s) ==
    CASE s = "QUEUED" -> {"RUNNING"}
      [] s = "RUNNING" -> {"COMPLETED", "FAILED"}
      [] OTHER -> {}

\* Error kinds a backend's own status()/result() may raise: every subclass
\* of HalError, the three kinds wait raises itself (Timeout, JobFailed,
\* JobCancelled) included.  The status values are spelled FAILED, CANCELLED;
\* the error kinds JobFailed, JobCancelled.
BackendErrors ==
    {"BackendUnavailable", "Timeout", "InvalidCircuit", "CircuitTooLarge",
     "InvalidShots", "Unsupported", "SubmissionFailed", "JobFailed",
     "JobCancelled", "JobNotFound", "AuthenticationFailed", "Configuration",
     "BackendError"}

\* ExecutionResult values a backend may return.
ResultVals == {"res_a", "res_b"}

\* Everything one status() call can answer.
StatusResponses == JobStatus \cup BackendErrors

\* Everything one result() call can answer.
ResultResponses == ResultVals \cup BackendErrors

---------------------------------------------------------------------------
(* Backend.wait                                                            *)

\* COMPLETED is not recognised: the loop keeps polling.
WaitBranchNoComplete(s) ==
    IF s \in BackendErrors THEN [pc |-> "done", outcome |-> s]
    ELSE IF s = "FAILED" THEN [pc |-> "done", outcome |-> "JobFailed"]
    ELSE IF s = "CANCELLED" THEN [pc |-> "done", outcome |-> "JobCancelled"]
    ELSE [pc |-> "sleep", outcome |-> "none"]

\* The FAILED and CANCELLED branches raise each other's error.
WaitBranchSwapped(s) ==
    IF s \in BackendErrors THEN [pc |-> "done", outcome |-> s]
    ELSE IF s = "COMPLETED" THEN [pc |-> "result", outcome |-> "none"]
    ELSE IF s = "FAILED" THEN [pc |-> "done", outcome |-> "JobCancelled"]
    ELSE IF s = "CANCELLED" THEN [pc |-> "done", outcome |-> "JobFailed"]
    ELSE [pc |-> "sleep", outcome |-> "none"]

\* An error of status() is swallowed and the loop polls again.
WaitBranchSwallow(s) ==
    IF s \in BackendErrors THEN [pc |-> "sleep", outcome |-> "none"]
    ELSE IF s = "COMPLETED" THEN [pc |-> "result", outcome |-> "none"]
    ELSE IF s = "FAILED" THEN [pc |-> "done", outcome |-> "JobFailed"]
    ELSE IF s = "CANCELLED" THEN [pc |-> "done", outcome |-> "JobCancelled"]
    ELSE [pc |-> "sleep", outcome |-> "none"]

\* Where wait goes once `await self.status(job_id)` has answered s: an
\* exception of status() propagates; otherwise the three `if s is ...`
\* tests, and the fall-through to the sleep.
WaitBranch(s) ==
    IF s \in BackendErrors THEN [pc |-> "done", outcome |-> s]
    ELSE IF s = "COMPLETED" THEN [pc |-> "result", outcome |-> "none"]
    ELSE IF s = "FAILED" THEN [pc |-> "done", outcome |-> "JobFailed"]
    ELSE IF s = "CANCELLED" THEN [pc |-> "done", outcome |-> "JobCancelled"]
    ELSE [pc |-> "sleep", outcome |-> "none"]

\* range(601): one poll too many.
LoopNextOffByOne(i) ==
    IF i + 1 < MaxPolls + 1
    THEN [pc |-> "status", outcome |-> "none"]
    ELSE [pc |-> "done", outcome |-> "Timeout"]

\* After the sleep that ends iteration i of `for _ in range(600)`: the next
\* iteration polls again; when the range is exhausted the loop falls
\* through to `raise TimeoutError`.
LoopNext(i) ==
    IF i + 1 < MaxPolls
    THEN [pc |-> "status", outcome |-> "none"]
    ELSE [pc |-> "done", outcome |-> "Timeout"]

\* cancel(job_id) is called when the wait is about to time out.
WaitCallCancelOnTimeout(pcv, i) ==
    CASE pcv = "status" -> "status"
      [] pcv = "result" -> "result"
      [] OTHER -> IF i + 1 < MaxPolls THEN "sleep" ELSE "cancel"

\* What wait calls at each of its three await points.
WaitCall(pcv, i) ==
    CASE pcv = "status" -> "status"
      [] pcv = "result" -> "result"
      [] OTHER -> "sleep"

\* The job after method m was called on the backend: status and result
\* read; cancel moves a QUEUED or RUNNING job to CANCELLED and is a no-op on
\* a terminal (or unknown) one.
BackendApply(m, j) ==
    IF m = "cancel" /\ is_pending(j) THEN "CANCELLED" ELSE j

\* asyncio.sleep(1.0): twice the interval.
ClockAfterSleepDouble(t) == t + 2 * IntervalMs

\* The simulated clock once `await asyncio.sleep(0.5)` has returned.
ClockAfterSleep(t) == t + IntervalMs

\* `return await self.result(job_id)`: the value of result() is returned
\* as it is, an exception of result() propagates.
ResultReturn(r) ==
    IF r \in BackendErrors
    THEN [outcome |-> r, retval |-> "none"]
    ELSE [outcome |-> "value", retval |-> r]

\* The first wait that ends JobFailed or JobCancelled is remembered, whether
\* the error is wait's own raise or one that status() or result() raised.
NoteFailure(o) ==
    IF failedKind = "none" /\ o \in {"JobFailed", "JobCancelled"}
    THEN /\ failedKind' = o
         /\ failedAt' = waitNo
    ELSE UNCHANGED <<failedKind, failedAt>>

\* `s = await self.status(job_id)` answers resp, then the branch on s.
Poll(resp) ==
    /\ pc = "status"
    /\ pc' = WaitBranch(resp).pc
    /\ outcome' = WaitBranch(resp).outcome
    /\ npolls' = npolls + 1
    /\ lastPollAt' = clock
    /\ pendingSeen' = IF is_pending(resp) THEN pendingSeen + 1 ELSE pendingSeen
    /\ firstOther' = IF firstOther = "none" /\ ~is_pending(resp)
                     THEN resp ELSE firstOther
    /\ pollsAfterOther' = IF firstOther # "none"
                          THEN pollsAfterOther + 1 ELSE pollsAfterOther
    /\ lastCall' = WaitCall(pc, iter)
    /\ lastBy' = "wait"
    /\ job' = BackendApply(WaitCall(pc, iter), job)
    /\ NoteFailure(WaitBranch(resp).outcome)
    /\ UNCHANGED <<iter, retval, nresults, nsleeps, clock, sleepsAfterOther,
                   resultResp, waitNo>>
    /\ UNCHANGED <<countVars, gridVars>>

\* `await asyncio.sleep(0.5)` returns and the loop goes round, or ends in
\* `raise TimeoutError`.
SleepDone ==
    /\ pc = "sleep"
    /\ pc' = LoopNext(iter).pc
    /\ outcome' = LoopNext(iter).outcome
    /\ iter' = iter + 1
    /\ clock' = ClockAfterSleep(clock)
    /\ nsleeps' = nsleeps + 1
    /\ sleepsAfterOther' = IF firstOther # "none"
                           THEN sleepsAfterOther + 1 ELSE sleepsAfterOther
    /\ lastCall' = WaitCall(pc, iter)
    /\ lastBy' = "wait"
    /\ job' = BackendApply(WaitCall(pc, iter), job)
    /\ UNCHANGED <<retval, npolls, nresults, lastPollAt, pendingSeen,
                   firstOther, pollsAfterOther, resultResp>>
    /\ UNCHANGED <<waitNo, failedKind, failedAt, countVars, gridVars>>

\* `return await self.result(job_id)` answers r.
ResultStep(r) ==
    /\ pc = "result"
    /\ pc' = "done"
    /\ outcome' = ResultReturn(r).outcome
    /\ retval' = ResultReturn(r).retval
    /\ nresults' = nresults + 1
    /\ resultResp' = r
    /\ lastCall' = WaitCall(pc, iter)
    /\ lastBy' = "wait"
    /\ job' = BackendApply(WaitCall(pc, iter), job)
    /\ UNCHANGED <<iter, npolls, nsleeps, clock, lastPollAt, pendingSeen,
                   firstOther, pollsAfterOther, sleepsAfterOther>>
    /\ NoteFailure(ResultReturn(r).outcome)
    /\ UNCHANGED <<waitNo, countVars, gridVars>>

\* The caller cancels the task running wait while it is suspended at one of
\* its three awaits (status, result, asyncio.sleep): CancelledError is
\* raised there and leaves wait, which has no handler.  A call that was
\* suspended has not answered.
Abandon ==
    /\ pc \in {"status", "result", "sleep"}
    /\ pc' = "done"
    /\ outcome' = "Abandoned"
    /\ lastCall' = "abandon"
    /\ lastBy' = "caller"
    /\ UNCHANGED <<iter, retval, npolls, nresults, nsleeps, clock, lastPollAt,
                   pendingSeen, firstOther, pollsAfterOther, sleepsAfterOther,
                   resultResp>>
    /\ UNCHANGED <<jobVars, countVars, gridVars>>

\* The state of a wait that has just been called.
WaitEntered ==
    /\ pc' = "status"
    /\ iter' = 0
    /\ outcome' = "none"
    /\ retval' = "none"
    /\ npolls' = 0
    /\ nresults' = 0
    /\ nsleeps' = 0
    /\ clock' = 0
    /\ lastPollAt' = 0
    /\ pendingSeen' = 0
    /\ firstOther' = "none"
    /\ pollsAfterOther' = 0
    /\ sleepsAfterOther' = 0
    /\ resultResp' = "none"

---------------------------------------------------------------------------
(* The backend's job and the caller (SpecJob)                              *)

\* status(job_id) of a backend that reports its job: JobNotFound for an
\* identifier submit never returned.
StatusOf(j) == IF j = "NONE" THEN "JobNotFound" ELSE j

\* result(job_id) of that backend: defined only for a COMPLETED job.
ResultOf(j) == IF j = "COMPLETED" THEN "res_a" ELSE "JobNotFound"

\* submit(): the job starts in QUEUED.
Submit ==
    /\ job = "NONE"
    /\ job' = "QUEUED"
    /\ lastCall' = "submit"
    /\ lastBy' = "caller"
    /\ UNCHANGED <<pc, iter, outcome, retval, npolls, nresults, nsleeps, clock,
                   lastPollAt, pendingSeen, firstOther, pollsAfterOther,
                   sleepsAfterOther, resultResp>>
    /\ UNCHANGED <<waitNo, failedKind, failedAt, countVars, gridVars>>

\* The backend moves the job along its lifecycle.
Progress ==
    /\ \E s \in Lifecycle(job) : job' = s
    /\ lastCall' = "none"
    /\ lastBy' = "backend"
    /\ UNCHANGED <<pc, iter, outcome, retval, npolls, nresults, nsleeps, clock,
                   lastPollAt, pendingSeen, firstOther, pollsAfterOther,
                   sleepsAfterOther, resultResp>>
    /\ UNCHANGED <<waitNo, failedKind, failedAt, countVars, gridVars>>

\* The caller calls cancel(job_id), at any time.
Cancel ==
    /\ job' = BackendApply("cancel", job)
    /\ lastCall' = "cancel"
    /\ lastBy' = "caller"
    /\ UNCHANGED <<pc, iter, outcome, retval, npolls, nresults, nsleeps, clock,
                   lastPollAt, pendingSeen, firstOther, pollsAfterOther,
                   sleepsAfterOther, resultResp>>
    /\ UNCHANGED <<waitNo, failedKind, failedAt, countVars, gridVars>>

\* The caller calls wait(job_id), for the first time or again.
StartWait ==
    /\ pc \in {"idle", "done"}
    /\ waitNo < MaxWaits
    /\ waitNo' = waitNo + 1
    /\ WaitEntered
    /\ lastCall' = "wait"
    /\ lastBy' = "caller"
    /\ UNCHANGED <<job, failedKind, failedAt, countVars, gridVars>>

PollJob == Poll(StatusOf(job))

ResultJob == ResultStep(ResultOf(job))

---------------------------------------------------------------------------
(* Counts                                                                  *)

\* The measurement keys used.
Bitstrings == {"101", "010", "111"}

\* The counts passed to insert: any int, so 0, a negative number, and ints
\* of both signs beyond the range of a float.
CountVals == ((0 - 1) .. MaxCount) \cup {HugeCount, 1 - HugeCount}

\* dict.get(k, default)
DictGet(d, k, default) == IF k \in DOMAIN d THEN d[k] ELSE default

\* The new count replaces the old one.
InsertIntoOverwrite(d, b, c) ==
    [k \in (DOMAIN d) \cup {b} |-> IF k = b THEN c ELSE d[k]]

\* self._counts[bitstring] = self._counts.get(bitstring, 0) + count
InsertInto(d, b, c) ==
    [k \in (DOMAIN d) \cup {b} |-> IF k = b THEN DictGet(d, b, 0) + c ELSE d[k]]

\* Counts.get
get(d, b) == DictGet(d, b, 0)

RECURSIVE SumOver(_, _)
\* sum(...) of the values d holds under the keys S
SumOver(d, S) ==
    IF S = {} THEN 0
    ELSE LET k == CHOOSE x \in S : TRUE
         IN  d[k] + SumOver(d, S \ {k})

\* Counts.total_shots
total_shots(d) == SumOver(d, DOMAIN d)

Abs(n) == IF n < 0 THEN 0 - n ELSE n

RECURSIVE Gcd(_, _)
Gcd(a, b) == IF b = 0 THEN a ELSE Gcd(b, a % b)

\* Python's int / int: ZeroDivisionError for a zero divisor, OverflowError
\* when the quotient is beyond the range of a float, otherwise the quotient,
\* kept exact as a fraction in lowest terms with den > 0 (the rounding of
\* the float, and a tiny quotient underflowing to 0.0, raise nothing and are
\* not modelled).
TrueDiv(a, b) ==
    IF b = 0 THEN [err |-> "ZeroDivisionError", num |-> 0, den |-> 0]
    ELSE IF Abs(a) > FloatMax * Abs(b)
    THEN [err |-> "OverflowError", num |-> 0, den |-> 0]
    ELSE LET g == Gcd(Abs(a), Abs(b))
             s == IF b < 0 THEN 0 - 1 ELSE 1
         IN  [err |-> "none", num |-> s * (a \div g), den |-> s * (b \div g)]

\* What a call whose divisions are m returns: the first division that
\* raises makes the call raise that error; otherwise the mapping.
Comprehension(m) ==
    IF \E k \in DOMAIN m : m[k].err # "none"
    THEN LET k == CHOOSE x \in DOMAIN m : m[x].err # "none"
         IN  [called |-> TRUE, raised |-> m[k].err, map |-> <<>>]
    ELSE [called |-> TRUE, raised |-> "none", map |-> m]

\* Without the `if total == 0` guard.
probabilitiesNoGuard(d) ==
    LET total == total_shots(d)
    IN  Comprehension([k \in DOMAIN d |-> TrueDiv(d[k], total)])

\* Counts.probabilities: {} when the total is 0, otherwise v / total for
\* every item; a division that raises makes the call raise.
probabilities(d) ==
    LET total == total_shots(d)
    IN  IF total = 0
        THEN [called |-> TRUE, raised |-> "none", map |-> <<>>]
        ELSE Comprehension([k \in DOMAIN d |-> TrueDiv(d[k], total)])

\* No probabilities() call has been made on the present counts.
NoProbs == [called |-> FALSE, raised |-> "none", map |-> <<>>]

\* c.insert(b, n)
Insert(b, n) ==
    /\ Len(hist) < MaxInserts
    /\ counts' = InsertInto(counts, b, n)
    /\ hist' = Append(hist, <<b, n>>)
    /\ probs' = NoProbs
    /\ UNCHANGED <<waitVars, jobVars, gridVars>>

\* c.probabilities()
Probabilities ==
    /\ probs' = probabilities(counts)
    /\ UNCHANGED <<counts, hist>>
    /\ UNCHANGED <<waitVars, jobVars, gridVars>>

---------------------------------------------------------------------------
(* Topology                                                                *)

\* `c + 1 <= cols`: the last cell of a row is joined to the first of the next.
CellEdgesWrap(r, c, R, C) ==
    LET idx == r * C + c
        right == IF c + 1 <= C THEN <<(<<idx, idx + 1>>)>> ELSE <<>>
        down == IF r + 1 < R THEN <<(<<idx, idx + C>>)>> ELSE <<>>
    IN  right \o down

\* The body of grid's inner loop for cell (r, c): the edge to the right
\* neighbour, then the edge to the neighbour below.
CellEdges(r, c, R, C) ==
    LET idx == r * C + c
        right == IF c + 1 < C THEN <<(<<idx, idx + 1>>)>> ELSE <<>>
        down == IF r + 1 < R THEN <<(<<idx, idx + C>>)>> ELSE <<>>
    IN  right \o down

RECURSIVE GridLoop(_, _, _, _, _)
\* `for r in range(rows): for c in range(cols):` from (r, c) on.
GridLoop(r, c, R, C, acc) ==
    IF r >= R THEN acc
    ELSE IF c >= C THEN GridLoop(r + 1, 0, R, C, acc)
    ELSE GridLoop(r, c + 1, R, C, acc \o CellEdges(r, c, R, C))

\* Topology.grid(rows, cols).edges
grid(R, C) == GridLoop(0, 0, R, C, <<>>)

\* Topology.is_connected
is_connected(E, a, b) ==
    \E i \in 1 .. Len(E) :
        \/ (E[i][1] = a /\ E[i][2] = b)
        \/ (E[i][1] = b /\ E[i][2] = a)

\* t = Topology.grid(rows, cols)
BuildGrid ==
    /\ ~built
    /\ edges' = grid(rows, cols)
    /\ built' = TRUE
    /\ UNCHANGED <<rows, cols, q1, q2, conn>>
    /\ UNCHANGED <<waitVars, jobVars, countVars>>

\* t.is_connected(a, b)
Query(a, b) ==
    /\ built
    /\ q1' = a
    /\ q2' = b
    /\ conn' = is_connected(edges, a, b)
    /\ UNCHANGED <<rows, cols, edges, built>>
    /\ UNCHANGED <<waitVars, jobVars, countVars>>

---------------------------------------------------------------------------
(* Initial states                                                          *)

CountsIdle ==
    /\ counts = <<>>
    /\ hist = <<>>
    /\ probs = NoProbs

GridIdle ==
    /\ rows = 1
    /\ cols = 1
    /\ edges = <<>>
    /\ built = FALSE
    /\ q1 = 0
    /\ q2 = 0
    /\ conn = FALSE

WaitIdle ==
    /\ pc = "idle"
    /\ iter = 0
    /\ outcome = "none"
    /\ retval = "none"
    /\ npolls = 0
    /\ nresults = 0
    /\ nsleeps = 0
    /\ clock = 0
    /\ lastPollAt = 0
    /\ pendingSeen = 0
    /\ firstOther = "none"
    /\ pollsAfterOther = 0
    /\ sleepsAfterOther = 0
    /\ resultResp = "none"
    /\ lastCall = "none"
    /\ lastBy = "caller"
    /\ job = "NONE"
    /\ waitNo = 0
    /\ failedKind = "none"
    /\ failedAt = 0

\* wait(job_id) has just been called on some backend.
Init ==
    /\ pc = "status"
    /\ iter = 0
    /\ outcome = "none"
    /\ retval = "none"
    /\ npolls = 0
    /\ nresults = 0
    /\ nsleeps = 0
    /\ clock = 0
    /\ lastPollAt = 0
    /\ pendingSeen = 0
    /\ firstOther = "none"
    /\ pollsAfterOther = 0
    /\ sleepsAfterOther = 0
    /\ resultResp = "none"
    /\ lastCall = "wait"
    /\ lastBy = "caller"
    /\ job = "NONE"
    /\ waitNo = 1
    /\ failedKind = "none"
    /\ failedAt = 0
    /\ CountsIdle
    /\ GridIdle

PollAny == \E s \in StatusResponses : Poll(s)

ResultAny == \E r \in ResultResponses : ResultStep(r)

Next == PollAny \/ SleepDone \/ ResultAny

Spec == Init /\ [][Next]_vars

InitJob == WaitIdle /\ CountsIdle /\ GridIdle

NextJob ==
    \/ Submit
    \/ Progress
    \/ Cancel
    \/ StartWait
    \/ PollJob
    \/ SleepDone
    \/ ResultJob
    \/ Abandon

SpecJob == InitJob /\ [][NextJob]_vars

InitCounts == WaitIdle /\ CountsIdle /\ GridIdle

InsertAny == \E b \in Bitstrings : \E n \in CountVals : Insert(b, n)

NextCounts == InsertAny \/ Probabilities

SpecCounts == InitCounts /\ [][NextCounts]_vars

InitGrid ==
    /\ WaitIdle
    /\ CountsIdle
    /\ rows \in 1 .. MaxDim
    /\ cols \in 1 .. MaxDim
    /\ edges = <<>>
    /\ built = FALSE
    /\ q1 = 0
    /\ q2 = 0
    /\ conn = FALSE

QueryAny ==
    \E a \in 0 .. (rows * cols - 1) : \E b \in 0 .. (rows * cols - 1) : Query(a, b)

NextGrid == BuildGrid \/ QueryAny

SpecGrid == InitGrid /\ [][NextGrid]_vars

\* The event loop resumes the coroutine whenever the awaited call or sleep
\* has returned: a wait that can take a step eventually takes it.
SpecLive == Spec /\ WF_vars(Next)

---------------------------------------------------------------------------
(* Backend.wait against an arbitrary backend (Spec, SpecLive)              *)

\* C1 as stated: a finished wait has returned a value if and only if the
\* first answer of status() that was not QUEUED/RUNNING was COMPLETED (and
\* it came within the 600 polls).
C1_ReturnsIffCompleted ==
    pc = "done" =>
        (outcome = "value" <=> (firstOther = "COMPLETED" /\ npolls <= MaxPolls))

\* C1, amended: a finished wait has returned a value if and only if the first
\* answer of status() that was not QUEUED/RUNNING was COMPLETED, within the
\* 600 polls, and the result() call that followed did not fail.  The value
\* is the one result() returned, result() is called once and only after
\* COMPLETED, and no poll follows the one that observed COMPLETED.
C1_ReturnsResult ==
    /\ pc = "done" =>
          (outcome = "value" <=>
              /\ firstOther = "COMPLETED"
              /\ npolls <= MaxPolls
              /\ resultResp \in ResultVals)
    /\ outcome = "value" => (retval = resultResp /\ nresults = 1)
    /\ nresults <= 1
    /\ nresults = 1 => firstOther = "COMPLETED"
    /\ firstOther = "COMPLETED" =>
          /\ pollsAfterOther = 0
          /\ npolls = pendingSeen + 1
          /\ pc \in {"result", "done"}
          /\ pc = "done" => nresults = 1

\* C1 witness: COMPLETED is observed by the 600th poll, after 599 polls of
\* QUEUED/RUNNING, and wait has returned what result() returned.
C1_Witness ==
    /\ pc = "done"
    /\ outcome = "value"
    /\ retval = "res_b"
    /\ pendingSeen = MaxPolls - 1
    /\ npolls = MaxPolls

\* C2 as stated: a finished wait has failed with JobFailed exactly when the
\* first terminal status it observed was FAILED, and with JobCancelled exactly
\* when it was CANCELLED; that observation is its last poll, and result() is
\* never called.
C2_FailsIffTerminalStatus ==
    /\ pc = "done" =>
          /\ outcome = "JobFailed" <=> firstOther = "FAILED"
          /\ outcome = "JobCancelled" <=> firstOther = "CANCELLED"
    /\ firstOther \in {"FAILED", "CANCELLED"} =>
          /\ pc = "done"
          /\ pollsAfterOther = 0
          /\ npolls = pendingSeen + 1
          /\ npolls <= MaxPolls
          /\ nresults = 0
          /\ resultResp = "none"

\* C2, amended: a finished wait has failed with JobFailed exactly when the
\* first terminal status it observed was FAILED or one of its own status()
\* or result() calls raised JobFailed, and with JobCancelled exactly when
\* that status was CANCELLED or such a call raised JobCancelled.  When FAILED
\* or CANCELLED is observed, that observation is the last poll and result()
\* is never called.
C2_TerminalFailure ==
    /\ pc = "done" =>
          /\ outcome = "JobFailed" <=>
                \/ firstOther = "FAILED"
                \/ firstOther = "JobFailed"
                \/ resultResp = "JobFailed"
          /\ outcome = "JobCancelled" <=>
                \/ firstOther = "CANCELLED"
                \/ firstOther = "JobCancelled"
                \/ resultResp = "JobCancelled"
    /\ firstOther \in {"FAILED", "CANCELLED"} =>
          /\ pc = "done"
          /\ outcome = (IF firstOther = "FAILED" THEN "JobFailed"
                                                ELSE "JobCancelled")
          /\ pollsAfterOther = 0
          /\ npolls = pendingSeen + 1
          /\ npolls <= MaxPolls
          /\ nresults = 0
          /\ resultResp = "none"

\* C2 witness: CANCELLED is observed after some polls of QUEUED/RUNNING and
\* wait has failed with JobCancelled.
C2_Witness ==
    /\ pc = "done"
    /\ outcome = "JobCancelled"
    /\ firstOther = "CANCELLED"
    /\ pendingSeen = 2

\* C3 as stated: a finished wait has failed with Timeout if and only if 600
\* polls observed QUEUED/RUNNING; it has then made exactly 600 polls and no
\* result() call; no execution makes more than 600 polls.
C3_TimeoutIffPending ==
    /\ pc = "done" => (outcome = "Timeout" <=> pendingSeen = MaxPolls)
    /\ outcome = "Timeout" => (npolls = MaxPolls /\ nresults = 0)
    /\ npolls <= MaxPolls

\* The state part of C3, amended.
C3_Bound ==
    /\ pc = "done" =>
          (outcome = "Timeout" <=>
              \/ pendingSeen = MaxPolls
              \/ firstOther = "Timeout"
              \/ resultResp = "Timeout")
    /\ pendingSeen = MaxPolls =>
          /\ pc \in {"sleep", "done"}
          /\ npolls = MaxPolls
          /\ nresults = 0
          /\ firstOther = "none"
    /\ npolls <= MaxPolls
    /\ pendingSeen <= MaxPolls
    /\ npolls = IF pc \in {"status", "idle"} THEN iter ELSE
                IF pc = "done" /\ pendingSeen = MaxPolls THEN iter
                ELSE iter + 1

\* C3, amended: wait fails with Timeout if and only if 600 consecutive polls
\* observed QUEUED/RUNNING or one of its own status() or result() calls
\* raised Timeout; after 600 polls of QUEUED/RUNNING it has made exactly 600
\* polls and no result() call; no execution makes more than 600 polls, and
\* every execution finishes.
C3_Timeout == [](C3_Bound) /\ <>(pc = "done")

\* C3 witness: wait has failed with Timeout after 600 polls.
C3_Witness ==
    /\ pc = "done"
    /\ outcome = "Timeout"
    /\ npolls = MaxPolls
    /\ pendingSeen = MaxPolls
    /\ nsleeps = MaxPolls
    /\ firstOther = "none"

\* What C9 says of the sleeps and the times of the polls.
C9_Sleeps ==
    /\ pc \in {"status", "result", "done"} => nsleeps = pendingSeen
    /\ pc = "sleep" => nsleeps + 1 = pendingSeen
    /\ sleepsAfterOther = 0
    /\ npolls >= 1 => lastPollAt = (npolls - 1) * IntervalMs
    /\ (npolls = 1 /\ firstOther # "none") => (nsleeps = 0 /\ clock = 0)

\* C9 as stated: every poll that observes QUEUED/RUNNING is followed by one
\* sleep and then by another poll, so the last poll of a finished wait did
\* not observe QUEUED/RUNNING.
C9_SleepThenPoll ==
    /\ C9_Sleeps
    /\ pc = "done" => pendingSeen < npolls

\* C9, amended: every poll that observes QUEUED/RUNNING is followed by one
\* sleep of the interval, and then by another poll unless it was the 600th
\* poll, after which wait fails with Timeout; no sleep follows a poll that
\* observed anything else; consecutive polls are one interval apart.
C9_SleepThenPollOrTimeout ==
    /\ C9_Sleeps
    /\ (pc = "done" /\ pendingSeen = npolls) =>
          (npolls = MaxPolls /\ outcome = "Timeout" /\ nsleeps = MaxPolls)

\* C9 witness: a poll observed RUNNING or QUEUED, wait slept once and polled
\* again, one interval later, and that poll ended the wait.
C9_Witness ==
    /\ pc = "done"
    /\ npolls = 2
    /\ pendingSeen = 1
    /\ nsleeps = 1
    /\ lastPollAt = IntervalMs
    /\ firstOther = "FAILED"

\* C10: when a status() call of wait fails, or the result() call after
\* COMPLETED fails, wait has failed with that same kind; the failed call is
\* the last call it makes: no later poll, no sleep, no result() after a
\* failed status().
C10_ErrorPropagates ==
    /\ firstOther \in BackendErrors =>
          /\ pc = "done"
          /\ outcome = firstOther
          /\ pollsAfterOther = 0
          /\ sleepsAfterOther = 0
          /\ npolls = pendingSeen + 1
          /\ nsleeps = pendingSeen
          /\ nresults = 0
    /\ resultResp \in BackendErrors =>
          /\ pc = "done"
          /\ outcome = resultResp
          /\ firstOther = "COMPLETED"
          /\ pollsAfterOther = 0
          /\ sleepsAfterOther = 0
          /\ nresults = 1

\* C10 witness: the first status() call failed with JobNotFound and wait
\* has failed with JobNotFound.
C10_Witness ==
    /\ pc = "done"
    /\ firstOther = "JobNotFound"
    /\ outcome = "JobNotFound"
    /\ npolls = 1

---------------------------------------------------------------------------
(* wait, cancel and the job's lifecycle (SpecJob)                          *)

\* C4: a step of wait calls only status, result or the sleep and leaves the
\* job's status as it was, also the step that ends it in Timeout, JobFailed
\* or JobCancelled; abandoning a wait leaves the job's status as it was; a
\* job becomes CANCELLED only in a cancel call of the caller.
C4_WaitLeavesJob ==
    [][ /\ lastBy' = "wait" =>
              (job' = job /\ lastCall' \in {"status", "result", "sleep"})
        /\ lastCall' = "abandon" => job' = job
        /\ (job' = "CANCELLED" /\ job # "CANCELLED") =>
              (lastBy' = "caller" /\ lastCall' = "cancel")
      ]_vars

\* C4 witness: a wait has timed out and the job is still RUNNING.
C4_Witness ==
    /\ pc = "done"
    /\ outcome = "Timeout"
    /\ lastBy = "wait"
    /\ job = "RUNNING"

\* The status a terminal failure kind stands for.
StatusFor(k) == IF k = "JobFailed" THEN "FAILED" ELSE "CANCELLED"

\* C5: once a wait has failed with JobFailed or JobCancelled the job stays
\* in that terminal status; every later wait on the identifier observes it at
\* its first poll and fails with the same kind there, never sleeps, never
\* calls result() and never returns a value.  (A later wait its caller
\* abandons before the first status() call has answered ends with no poll
\* answered.)
C5_TerminalIsFinal ==
    failedKind # "none" =>
        /\ job = StatusFor(failedKind)
        /\ waitNo > failedAt =>
              /\ pc \in {"status", "done"}
              /\ outcome \in {"none", failedKind, "Abandoned"}
              /\ nresults = 0
              /\ nsleeps = 0
              /\ npolls <= 1
              /\ npolls = 1 =>
                    /\ pc = "done"
                    /\ firstOther = StatusFor(failedKind)
                    /\ outcome = failedKind
              /\ (pc = "done" /\ outcome # "Abandoned") =>
                    (npolls = 1 /\ outcome = failedKind)
              /\ outcome = "Abandoned" => npolls = 0

\* C5 witness: the first wait failed with JobFailed, and a second wait on
\* the same identifier has failed with JobFailed at its first poll.
C5_Witness ==
    /\ failedKind = "JobFailed"
    /\ failedAt = 1
    /\ waitNo = 2
    /\ pc = "done"
    /\ npolls = 1
    /\ outcome = "JobFailed"

---------------------------------------------------------------------------
(* Counts (SpecCounts)                                                     *)

RECURSIVE HistSum(_, _)
\* The sum of the counts the calls of h inserted for bitstring b.
HistSum(h, b) ==
    IF h = <<>> THEN 0
    ELSE (IF Head(h)[1] = b THEN Head(h)[2] ELSE 0) + HistSum(Tail(h), b)

RECURSIVE HistTotal(_)
\* The sum of all the counts the calls of h inserted.
HistTotal(h) ==
    IF h = <<>> THEN 0 ELSE Head(h)[2] + HistTotal(Tail(h))

\* The bitstrings the calls of h inserted.
HistKeys(h) == {h[i][1] : i \in 1 .. Len(h)}

\* C6: after any sequence of inserts on an empty Counts, get(b) is the sum of
\* the counts inserted for b (0 when b was never inserted) and total_shots()
\* is the sum of all inserted counts; so an insert for one bitstring leaves
\* get of every other one as it was.
C6_InsertAccumulates ==
    /\ \A b \in Bitstrings : get(counts, b) = HistSum(hist, b)
    /\ total_shots(counts) = HistTotal(hist)
    /\ DOMAIN counts = HistKeys(hist)

\* C6 witness: insert("101", 2), an insert for another bitstring, then
\* insert("101", 1): get("101") is 3.
C6_Witness ==
    /\ Len(hist) = 3
    /\ hist[1] = <<"101", 2>>
    /\ hist[2][1] = "010"
    /\ hist[3] = <<"101", 1>>
    /\ get(counts, "101") = 3

\* C7 as stated: for every Counts reachable by inserts, probabilities()
\* never raises; it returns the empty mapping when total_shots() is 0, and
\* otherwise a mapping whose keys are the inserted bitstrings, each with its
\* count divided by total_shots().
C7_NeverRaises ==
    probs.called =>
        /\ probs.raised = "none"
        /\ HistTotal(hist) = 0 => probs.map = <<>>
        /\ HistTotal(hist) # 0 =>
              /\ DOMAIN probs.map = HistKeys(hist)
              /\ \A k \in DOMAIN probs.map :
                    /\ probs.map[k].err = "none"
                    /\ probs.map[k].den # 0
                    /\ probs.map[k].num * HistTotal(hist)
                          = probs.map[k].den * HistSum(hist, k)

\* Every count inserted so far is 0 or more.
NonNegative(h) == \A i \in 1 .. Len(h) : h[i][2] >= 0

\* C7, amended: probabilities() never divides by zero, and returns the empty
\* mapping without raising whenever total_shots() is 0 (counts of 0 and of
\* both signs included).  When every inserted count is 0 or more it never
\* raises.  Whenever the total is not 0 and it does not raise, it returns a
\* mapping whose keys are the inserted bitstrings, each with its count
\* divided by total_shots().  The only error it raises is OverflowError, for
\* an entry whose quotient is beyond the range of a float.
C7_Probabilities ==
    probs.called =>
        /\ probs.raised \in {"none", "OverflowError"}
        /\ NonNegative(hist) => probs.raised = "none"
        /\ HistTotal(hist) = 0 => (probs.raised = "none" /\ probs.map = <<>>)
        /\ probs.raised = "OverflowError" =>
              \E k \in HistKeys(hist) :
                  Abs(HistSum(hist, k)) > FloatMax * Abs(HistTotal(hist))
        /\ (HistTotal(hist) # 0 /\ probs.raised = "none") =>
              /\ DOMAIN probs.map = HistKeys(hist)
              /\ \A k \in DOMAIN probs.map :
                    /\ probs.map[k].err = "none"
                    /\ probs.map[k].den # 0
                    /\ probs.map[k].num * HistTotal(hist)
                          = probs.map[k].den * HistSum(hist, k)

\* C7 witness: after insert("101", n) with n beyond the range of a float and
\* insert("010", 1), probabilities() has not raised and maps "010" to
\* 1 / (n + 1).
C7_Witness ==
    /\ probs.called
    /\ probs.raised = "none"
    /\ hist = << <<"101", HugeCount>>, <<"010", 1>> >>
    /\ DOMAIN probs.map = {"101", "010"}
    /\ probs.map["010"].num = 1
    /\ probs.map["010"].den = HugeCount + 1

---------------------------------------------------------------------------
(* Topology.grid (SpecGrid)                                                *)

\* Cells a and b of the row-major rows x cols grid are horizontal or
\* vertical neighbours.
Adjacent(a, b) ==
    LET ra == a \div cols
        ca == a % cols
        rb == b \div cols
        cb == b % cols
    IN  \/ (ra = rb /\ Abs(ca - cb) = 1)
        \/ (ca = cb /\ Abs(ra - rb) = 1)

\* C8: on grid(rows, cols), is_connected(a, b) is true exactly when a and b
\* are horizontal or vertical neighbours, and is_connected(b, a) is the same.
C8_GridAdjacency ==
    built =>
        /\ conn = Adjacent(q1, q2)
        /\ is_connected(edges, q2, q1) = conn
        /\ Len(edges) = rows * (cols - 1) + cols * (rows - 1)

\* C8 witness: on a grid of 2 rows and 3 columns the last cell of the first
\* row (2) and the first cell of the second row (3) are not connected.
C8_Witness ==
    /\ built
    /\ rows = 2
    /\ cols = 3
    /\ q1 = 2
    /\ q2 = 3
    /\ conn = FALSE

=============================================================================
